---- MODULE Spec2Model ----
(***************************************************************************)
(* Model of the vault-zeta program (yasp-fi/yasp-zeta):                    *)
(*   - the Zeta margin functions of cpi_calls/zeta/zeta_utils.rs           *)
(*     (get_otm_amount, get_initial_margin_per_lot,                        *)
(*     get_maintenance_margin_per_lot), under MarginSpec;                  *)
(*   - the DepositToVault::deposit instruction of instructions/deposit.rs, *)
(*     step by step, under Spec.                                           *)
(*                                                                         *)
(* The program computes on u64 and u128.  TLC's integers are 32 bits wide, *)
(* so every program integer is a natural number held as a sequence of      *)
(* limbs (little-endian, base BASE, no leading zero limb; zero is <<>>).   *)
(* The widths 2^64 and 2^128 are therefore the program's own.              *)
(***************************************************************************)
EXTENDS Integers, Sequences, FiniteSets, TLC

\* ------------------------------------------------------------------------
\* Natural numbers of any size
\* ------------------------------------------------------------------------
BASE == 10 ^ 4

Zero == << >>

RECURSIVE ToBig(_)
\* The natural number n (a TLC integer) as limbs.
ToBig(n) ==
    IF n = 0 THEN << >> ELSE << n % BASE >> \o ToBig(n \div BASE)

One == ToBig(1)

RECURSIVE Norm(_)
\* Strip the leading (high) zero limbs.
Norm(s) ==
    IF s = << >> THEN << >>
    ELSE IF s[Len(s)] = 0 THEN Norm(SubSeq(s, 1, Len(s) - 1))
    ELSE s

Lo(s) == IF s = << >> THEN 0 ELSE Head(s)
Hi(s) == IF s = << >> THEN << >> ELSE Tail(s)
\* lo + BASE * hi, normalised.
Cons(lo, hi) == IF lo = 0 /\ hi = << >> THEN << >> ELSE << lo >> \o hi

RECURSIVE AddC(_, _, _)
AddC(a, b, c) ==
    IF a = << >> /\ b = << >>
    THEN (IF c = 0 THEN << >> ELSE << c >>)
    ELSE LET t == Lo(a) + Lo(b) + c
         IN  << t % BASE >> \o AddC(Hi(a), Hi(b), t \div BASE)

AddBig(a, b) == AddC(a, b, 0)

RECURSIVE CmpFrom(_, _, _)
\* Compare limbs i, i-1, ..., 1 of two numbers of equal length.
CmpFrom(a, b, i) ==
    IF i = 0 THEN 0
    ELSE IF a[i] < b[i] THEN -1
    ELSE IF a[i] > b[i] THEN 1
    ELSE CmpFrom(a, b, i - 1)

\* -1, 0, 1 as a < b, a = b, a > b.
CmpBig(a, b) ==
    IF Len(a) < Len(b) THEN -1
    ELSE IF Len(a) > Len(b) THEN 1
    ELSE CmpFrom(a, b, Len(a))

LeqBig(a, b) == CmpBig(a, b) <= 0
LtBig(a, b) == CmpBig(a, b) < 0
MinBig(a, b) == IF LeqBig(a, b) THEN a ELSE b
MaxBig(a, b) == IF LeqBig(a, b) THEN b ELSE a

RECURSIVE SubB(_, _, _)
SubB(a, b, w) ==
    IF a = << >> THEN << >>
    ELSE LET t == Lo(a) - Lo(b) - w
         IN  IF t < 0
             THEN << t + BASE >> \o SubB(Hi(a), Hi(b), 1)
             ELSE << t >> \o SubB(Hi(a), Hi(b), 0)

\* a - b, for a >= b.
SubBig(a, b) == Norm(SubB(a, b, 0))

RECURSIVE MulSmall(_, _, _)
\* a * d + c, for a limb d.
MulSmall(a, d, c) ==
    IF a = << >> THEN ToBig(c)
    ELSE LET t == Head(a) * d + c
         IN  << t % BASE >> \o MulSmall(Tail(a), d, t \div BASE)

RECURSIVE MulBig(_, _)
MulBig(a, b) ==
    IF a = << >> \/ b = << >> THEN << >>
    ELSE AddBig(Norm(MulSmall(a, Head(b), 0)), Cons(0, MulBig(a, Tail(b))))

RECURSIVE Digit(_, _, _, _)
\* The largest d in lo..hi with d * b <= n (lo qualifies).
Digit(n, b, lo, hi) ==
    IF lo = hi THEN lo
    ELSE LET mid == (lo + hi + 1) \div 2
         IN  IF LeqBig(Norm(MulSmall(b, mid, 0)), n)
             THEN Digit(n, b, mid, hi)
             ELSE Digit(n, b, lo, mid - 1)

\* The limbs of n from position k upwards, as an integer (at most two limbs).
TopFrom(n, k) ==
    IF Len(n) < k THEN 0
    ELSE IF Len(n) = k THEN n[k]
    ELSE n[k + 1] * BASE + n[k]

\* floor(n / b) for 0 <= n < b * BASE, b > 0.  With bt the leading limb of b
\* and nt the limbs of n above it, the quotient lies between nt \div (bt + 1)
\* and nt \div bt; the search is over that range.
QuotientDigit(n, b) ==
    LET bt == b[Len(b)]
        nt == TopFrom(n, Len(b))
        hi == IF nt \div bt > BASE - 1 THEN BASE - 1 ELSE nt \div bt
    IN  Digit(n, b, nt \div (bt + 1), hi)

RECURSIVE DivMod(_, _)
\* << floor(a / b), a mod b >>, for b > 0: long division, high limb first.
DivMod(a, b) ==
    IF a = << >> THEN << << >>, << >> >>
    ELSE LET qr == DivMod(Tail(a), b)
             n == Cons(Head(a), qr[2])
             d == QuotientDigit(n, b)
         IN  << Cons(d, qr[1]), SubBig(n, Norm(MulSmall(b, d, 0))) >>

DivBig(a, b) == DivMod(a, b)[1]

RECURSIVE PowBig(_, _)
\* a ^ k, by squaring.
PowBig(a, k) ==
    IF k = 0 THEN One
    ELSE LET h == PowBig(a, k \div 2)
         IN  IF k % 2 = 0 THEN MulBig(h, h) ELSE MulBig(a, MulBig(h, h))

\* ------------------------------------------------------------------------
\* Machine integers and Rust's checked arithmetic
\* ------------------------------------------------------------------------
U64_MAX == SubBig(PowBig(ToBig(2), 64), One)
U128_MAX == SubBig(PowBig(ToBig(2), 128), One)
I128_MAX == SubBig(PowBig(ToBig(2), 127), One)

\* A wide (u128) intermediate: a value, or the panic of an unwrap() on None
\* or on a failed conversion.
Val(x) == [ok |-> TRUE, v |-> x]
Panicked == [ok |-> FALSE, v |-> Zero]

\* x.checked_mul(b).unwrap() on u128.
checked_mul(x, b) ==
    IF ~x.ok THEN Panicked
    ELSE LET p == MulBig(x.v, b)
         IN  IF LeqBig(p, U128_MAX) THEN Val(p) ELSE Panicked

\* x.checked_div(b).unwrap() on u128.
checked_div(x, b) ==
    IF ~x.ok \/ b = Zero THEN Panicked ELSE Val(DivBig(x.v, b))

\* Mutant of checked_sub_or_zero: the difference of the two, whichever is
\* the larger, in place of the clamp at 0.
checked_sub_or_difference(a, b) ==
    IF LtBig(a, b) THEN SubBig(b, a) ELSE SubBig(a, b)

\* a.checked_sub(b).unwrap_or(0) on u128.
checked_sub_or_zero(a, b) ==
    IF LtBig(a, b) THEN Zero ELSE SubBig(a, b)

\* x.min(y) and x.max(y) on values already unwrapped.
wide_min(x, y) ==
    IF ~x.ok \/ ~y.ok THEN Panicked ELSE Val(MinBig(x.v, y.v))

\* (a as i128).checked_sub(b as i128).unwrap().max(0).try_into().unwrap()
\* for u64 a, b: the difference as sign and magnitude, clamped at 0, then
\* narrowed to u64.
i128_sub_max0_to_u64(a, b) ==
    LET neg == LtBig(a, b)
        mag == IF neg THEN SubBig(b, a) ELSE SubBig(a, b)
    IN  IF (neg /\ LtBig(AddBig(I128_MAX, One), mag)) \/ (~neg /\ LtBig(I128_MAX, mag))
        THEN Panicked
        ELSE LET clamped == IF neg THEN Zero ELSE mag
             IN  IF LeqBig(clamped, U64_MAX) THEN Val(clamped) ELSE Panicked

\* Result<u64>: Ok(v), Err(code), or the abort of the instruction by a panic.
\* The record also carries the locals of the short-option branch as the
\* function computed them (Zero where the branch was not taken).
Ok(x) ==
    [tag |-> "Ok", v |-> x, otm_amount |-> Zero, otm_pct |-> Zero,
     dynamic_margin_pct |-> Zero, margin_pct |-> Zero,
     margin |-> Zero, sell_put_cap_margin |-> Zero]
Err(code) == [Ok(Zero) EXCEPT !.tag = code]
Panic == [Ok(Zero) EXCEPT !.tag = "Panic"]
NotCalled == [Ok(Zero) EXCEPT !.tag = "NotCalled"]

\* Ok(u64::try_from(x).unwrap()), keeping the locals of r.
ok_u64_try_from(r, x) ==
    IF x.ok /\ LeqBig(x.v, U64_MAX) THEN [r EXCEPT !.tag = "Ok", !.v = x.v] ELSE Panic

\* ------------------------------------------------------------------------
\* State
\* ------------------------------------------------------------------------
\* A call of the margin functions: its arguments and what each function
\* returned for them.
VARIABLES
    args,  \* spot, strike, mark, product, side, long, margin_parameters
    otm,   \* the result of get_otm_amount
    im,    \* the result of get_initial_margin_per_lot
    mm     \* the result of get_maintenance_margin_per_lot

margin_vars == << args, otm, im, mm >>

\* The instruction runs inside one transaction of the host: the accounts of
\* DepositToVault are deserialized once, on entry, into the Account<'info, T>
\* values the handler reads (accts); the cross-program calls change the
\* accounts on chain (chain), and nothing in deposit.rs reloads an account
\* after a call.  A failing instruction leaves no effect: the host restores
\* the state of entry.
VARIABLES
    overflow_checks,  \* the build profile: does `+` on u64 panic on overflow?
    vault,            \* Vault: total_deposit, deposit_limit
    chain,            \* token and lending-market state on chain
    accts,            \* the handler's deserialized accounts
    entry,            \* vault and chain as they were on entry
    pc,               \* "idle", or the step of deposit() about to run
    max_amount_in,    \* the argument of deposit()
    shares,           \* the local `shares` of deposit()
    done,             \* the steps of this call that have returned Ok
    outcome,          \* how the last call ended
    calls,            \* deposit instructions started
    accruals          \* interest accruals of the reserve

deposit_vars ==
    << overflow_checks, vault, chain, accts, entry, pc, max_amount_in, shares,
       done, outcome, calls, accruals >>

vars == << margin_vars, deposit_vars >>

\* ------------------------------------------------------------------------
\* cpi_calls/zeta/zeta_utils.rs
\* ------------------------------------------------------------------------
NATIVE_PRECISION_DENOMINATOR == ToBig(1000000)

Kind == {"Uninitialized", "Future", "Call", "Put"}
Side == {"Uninitialized", "Bid", "Ask"}

\* Mutant of get_otm_amount: the arms of Call and Put exchanged.
get_otm_amount_swapped(spot, strike, product) ==
    CASE product = "Put" ->
            LET r == i128_sub_max0_to_u64(strike, spot)
            IN  IF r.ok THEN Ok(r.v) ELSE Panic
      [] product = "Call" ->
            LET r == i128_sub_max0_to_u64(spot, strike)
            IN  IF r.ok THEN Ok(r.v) ELSE Panic
      [] OTHER -> Err("UnsupportedKind")

get_otm_amount(spot, strike, product) ==
    CASE product = "Call" ->
            LET r == i128_sub_max0_to_u64(strike, spot)
            IN  IF r.ok THEN Ok(r.v) ELSE Panic
      [] product = "Put" ->
            LET r == i128_sub_max0_to_u64(spot, strike)
            IN  IF r.ok THEN Ok(r.v) ELSE Panic
      [] OTHER -> Err("UnsupportedKind")

\* Mutant of short_option_margin: otm_pct is taken over the strike, not
\* over the spot.
short_option_margin_over_strike(spot, strike, product, dynamic, floor) ==
    LET otm_amount == get_otm_amount(spot, strike, product)
    IN  IF otm_amount.tag # "Ok" THEN otm_amount
        ELSE LET otm_pct == checked_div(
                                checked_mul(Val(otm_amount.v), NATIVE_PRECISION_DENOMINATOR),
                                strike)
             IN  IF ~otm_pct.ok THEN Panic
                 ELSE LET dynamic_margin_pct == checked_sub_or_zero(dynamic, otm_pct.v)
                          margin_pct == MaxBig(dynamic_margin_pct, floor)
                          m == checked_div(checked_mul(Val(margin_pct), spot),
                                           NATIVE_PRECISION_DENOMINATOR)
                      IN  IF ~m.ok THEN Panic
                          ELSE [Ok(m.v) EXCEPT !.otm_amount = otm_amount.v,
                                               !.otm_pct = otm_pct.v,
                                               !.dynamic_margin_pct = dynamic_margin_pct,
                                               !.margin_pct = margin_pct,
                                               !.margin = m.v]

\* The short (Side::Ask / not long) option branch, of the same shape in the
\* two margin functions: dynamic is option_dynamic_percentage_short_* and
\* floor is option_spot_percentage_short_*.  The Ok value is the u128 margin.
short_option_margin(spot, strike, product, dynamic, floor) ==
    LET otm_amount == get_otm_amount(spot, strike, product)
    IN  IF otm_amount.tag # "Ok" THEN otm_amount
        ELSE LET otm_pct == checked_div(
                                checked_mul(Val(otm_amount.v), NATIVE_PRECISION_DENOMINATOR),
                                spot)
             IN  IF ~otm_pct.ok THEN Panic
                 ELSE LET dynamic_margin_pct == checked_sub_or_zero(dynamic, otm_pct.v)
                          margin_pct == MaxBig(dynamic_margin_pct, floor)
                          m == checked_div(checked_mul(Val(margin_pct), spot),
                                           NATIVE_PRECISION_DENOMINATOR)
                      IN  IF ~m.ok THEN Panic
                          ELSE [Ok(m.v) EXCEPT !.otm_amount = otm_amount.v,
                                               !.otm_pct = otm_pct.v,
                                               !.dynamic_margin_pct = dynamic_margin_pct,
                                               !.margin_pct = margin_pct,
                                               !.margin = m.v]

\* The long (Side::Bid / long) option branch:
\* spot * spot_pct / DENOM  min  mark * mark_pct / DENOM.
long_option_margin(spot, mark, spot_pct, mark_pct) ==
    LET m == wide_min(
                 checked_div(checked_mul(Val(spot), spot_pct),
                             NATIVE_PRECISION_DENOMINATOR),
                 checked_div(checked_mul(Val(mark), mark_pct),
                             NATIVE_PRECISION_DENOMINATOR))
    IN  IF m.ok THEN Ok(m.v) ELSE Panic

\* The Kind::Future branch: spot * pct / DENOM.
future_margin(spot, pct) ==
    LET m == checked_div(checked_mul(Val(spot), pct), NATIVE_PRECISION_DENOMINATOR)
    IN  IF m.ok THEN Ok(m.v) ELSE Panic

\* Mutant of put_cap: the margin is returned without the clamp.
put_cap_unclamped(r, strike, mp) ==
    ok_u64_try_from(r, Val(r.v))

\* The short Put cap: min(margin, strike * option_short_put_cap_percentage
\* / DENOM), narrowed to u64.
put_cap(r, strike, mp) ==
    LET cap == checked_div(
                   checked_mul(Val(strike), mp.option_short_put_cap_percentage),
                   NATIVE_PRECISION_DENOMINATOR)
    IN  IF ~cap.ok THEN Panic
        ELSE ok_u64_try_from([r EXCEPT !.sell_put_cap_margin = cap.v],
                             wide_min(Val(r.v), cap))

\* The tail of both margin functions (zeta_utils.rs:124-135, 202-213): an
\* error is returned as it is; the margin of a short Put is capped; the
\* margin is narrowed to u64.
narrow_margin(margin, capped, strike, mp) ==
    IF margin.tag # "Ok" THEN margin
    ELSE IF capped
    THEN put_cap(margin, strike, mp)
    ELSE ok_u64_try_from(margin, Val(margin.v))

\* Mutant of get_initial_margin_per_lot: every side but Bid takes the
\* short branch.
get_initial_margin_per_lot_short_unless_bid(spot, strike, mark, product, side, mp) ==
    narrow_margin(
            CASE product = "Future" ->
                    future_margin(spot, mp.future_margin_initial)
              [] product \in {"Call", "Put"} ->
                    ( CASE side = "Bid" ->
                              long_option_margin(spot, mark,
                                  mp.option_spot_percentage_long_initial,
                                  mp.option_mark_percentage_long_initial)
                        [] OTHER ->
                              short_option_margin(spot, strike, product,
                                  mp.option_dynamic_percentage_short_initial,
                                  mp.option_spot_percentage_short_initial) )
              [] OTHER -> Err("UnsupportedKind"),
            product = "Put" /\ side = "Ask", strike, mp)

\* get_initial_margin_per_lot (zeta_utils.rs:69-136)
get_initial_margin_per_lot(spot, strike, mark, product, side, mp) ==
    narrow_margin(
            CASE product = "Future" ->
                    future_margin(spot, mp.future_margin_initial)
              [] product \in {"Call", "Put"} ->
                    ( CASE side = "Bid" ->
                              long_option_margin(spot, mark,
                                  mp.option_spot_percentage_long_initial,
                                  mp.option_mark_percentage_long_initial)
                        [] side = "Ask" ->
                              short_option_margin(spot, strike, product,
                                  mp.option_dynamic_percentage_short_initial,
                                  mp.option_spot_percentage_short_initial)
                        [] OTHER -> Panic )
              [] OTHER -> Err("UnsupportedKind"),
            product = "Put" /\ side = "Ask", strike, mp)

\* get_maintenance_margin_per_lot (zeta_utils.rs:139-214)
get_maintenance_margin_per_lot(spot, strike, mark, product, long, mp) ==
    narrow_margin(
            CASE product = "Future" ->
                    future_margin(spot, mp.future_margin_maintenance)
              [] product \in {"Call", "Put"} ->
                    IF long
                    THEN long_option_margin(spot, mark,
                             mp.option_spot_percentage_long_maintenance,
                             mp.option_mark_percentage_long_maintenance)
                    ELSE short_option_margin(spot, strike, product,
                             mp.option_dynamic_percentage_short_maintenance,
                             mp.option_spot_percentage_short_maintenance)
              [] OTHER -> Err("UnsupportedKind"),
            product = "Put" /\ ~long, strike, mp)

\* ------------------------------------------------------------------------
\* The margin functions applied to bounded inputs
\* ------------------------------------------------------------------------
\* MarginParameters, by its fields.
MarginParameters(fi, fm, sli, mli, slm, mlm, ssi, di, ssm, dm, cap) ==
    [future_margin_initial |-> fi,
     future_margin_maintenance |-> fm,
     option_spot_percentage_long_initial |-> sli,
     option_mark_percentage_long_initial |-> mli,
     option_spot_percentage_long_maintenance |-> slm,
     option_mark_percentage_long_maintenance |-> mlm,
     option_spot_percentage_short_initial |-> ssi,
     option_dynamic_percentage_short_initial |-> di,
     option_spot_percentage_short_maintenance |-> ssm,
     option_dynamic_percentage_short_maintenance |-> dm,
     option_short_put_cap_percentage |-> cap]

\* Percentage settings << future, option long spot, option long mark,
\* option short spot, option short dynamic >>, used for the initial and for
\* the maintenance fields.
PctSettings ==
    { << ToBig(150000), ToBig(150000), ToBig(1000000), ToBig(100000), ToBig(500000) >>,
      << ToBig(75000), ToBig(75000), ToBig(1000000), ToBig(62500), ToBig(250000) >>,
      << ToBig(80000), ToBig(60000), ToBig(500000), ToBig(250000), ToBig(120000) >>,
      << U64_MAX, U64_MAX, U64_MAX, U64_MAX, U64_MAX >> }

CapSettings == { ToBig(200000) }

ParamSet ==
    { MarginParameters(i[1], m[1], i[2], i[3], m[2], m[3], i[4], i[5], m[4], m[5], c) :
        i \in PctSettings, m \in PctSettings, c \in CapSettings }

SpotSet == { Zero, One, ToBig(100000000), U64_MAX }
StrikeSet == { ToBig(90000000), ToBig(150000000), U64_MAX }
MarkSet == { ToBig(12000000), U64_MAX }

MarginInit ==
    /\ args \in [spot : SpotSet, strike : StrikeSet, mark : MarkSet,
                  product : Kind, side : Side, long : BOOLEAN,
                  margin_parameters : ParamSet]
    /\ otm = NotCalled
    /\ im = NotCalled
    /\ mm = NotCalled

CallOtmAmount ==
    /\ otm = NotCalled
    /\ otm' = get_otm_amount(args.spot, args.strike, args.product)
    /\ UNCHANGED << args, im, mm, deposit_vars >>

CallInitialMargin ==
    /\ im = NotCalled
    /\ im' = get_initial_margin_per_lot(args.spot, args.strike, args.mark,
                                        args.product, args.side,
                                        args.margin_parameters)
    /\ UNCHANGED << args, otm, mm, deposit_vars >>

CallMaintenanceMargin ==
    /\ mm = NotCalled
    /\ mm' = get_maintenance_margin_per_lot(args.spot, args.strike, args.mark,
                                            args.product, args.long,
                                            args.margin_parameters)
    /\ UNCHANGED << args, otm, im, deposit_vars >>

MarginNext == CallOtmAmount \/ CallInitialMargin \/ CallMaintenanceMargin

\* ------------------------------------------------------------------------
\* instructions/deposit.rs: DepositToVault::deposit
\* ------------------------------------------------------------------------
MaxDeposits == 3
MaxAccruals == 1

\* `a + b` on u64 (deposit.rs:66): the sum; on overflow a panic when the
\* build checks overflow, the sum modulo 2^64 when it does not.
add_u64(a, b, checks) ==
    LET sum == AddBig(a, b)
    IN  IF LeqBig(sum, U64_MAX) THEN Val(sum)
        ELSE IF checks THEN Panicked
        ELSE Val(SubBig(sum, AddBig(U64_MAX, One)))

\* Mutant of cap_check: total_deposit alone is compared with the limit.
cap_check_without_amount(total_deposit, amount, deposit_limit, checks) ==
    IF LtBig(deposit_limit, total_deposit) THEN "VaultIsFull" ELSE "Pass"

\* The guard of deposit(): "Pass", "VaultIsFull", or "Panic".
cap_check(total_deposit, amount, deposit_limit, checks) ==
    LET sum == add_u64(total_deposit, amount, checks)
    IN  IF ~sum.ok THEN "Panic"
        ELSE IF LtBig(deposit_limit, sum.v) THEN "VaultIsFull"
        ELSE "Pass"

\* Mutant of deposit_steps: total_deposit is updated before the mint.
deposit_steps_update_before_mint ==
    << "approve", "deposit_liquidity", "get_shares", "after_deposit", "mint" >>

\* The calls of deposit() after the guard, in the order of the code.
deposit_steps ==
    << "approve", "deposit_liquidity", "get_shares", "mint", "after_deposit" >>

StepIndex(step) == CHOOSE i \in 1..Len(deposit_steps) : deposit_steps[i] = step

\* Vault::for_underlying(collateral, reserve): the liquidity a collateral
\* balance redeems for at the reserve's exchange rate, as Result<u64>.
for_underlying(collateral, reserve) ==
    IF reserve.collateral = Zero THEN Val(collateral)
    ELSE LET x == DivBig(MulBig(collateral, reserve.liquidity), reserve.collateral)
         IN  IF LeqBig(x, U64_MAX) THEN Val(x) ELSE Panicked

\* ratio!(a, b, c): floor(a * b / c) as an Option<u64>.
ratio(a, b, c) ==
    IF c = Zero THEN Panicked
    ELSE LET x == DivBig(MulBig(a, b), c)
         IN  IF LeqBig(x, U64_MAX) THEN Val(x) ELSE Panicked

\* Mutant of get_shares: the accounts are reloaded from the chain before
\* they are read.
get_shares_reloaded(amount) ==
    LET total_supply == chain.shares_supply
        total_assets == for_underlying(chain.collateral_amount, chain.reserve)
    IN  IF ~total_assets.ok THEN Panicked
        ELSE IF total_supply # Zero
        THEN ratio(amount, total_supply, total_assets.v)
        ELSE Val(amount)

\* DepositToVault::get_shares, which reads the handler's accounts; both
\* unwrap() calls abort the instruction.
get_shares(amount) ==
    LET total_supply == accts.shares_mint.supply
        total_assets == for_underlying(accts.collateral_vault.amount, accts.reserve)
    IN  IF ~total_assets.ok THEN Panicked
        ELSE IF total_supply # Zero
        THEN ratio(amount, total_supply, total_assets.v)
        ELSE Val(amount)

\* Vault::after_deposit(amount): total_deposit += amount, checked.
after_deposit(v, amount) ==
    LET sum == AddBig(v.total_deposit, amount)
    IN  IF LeqBig(sum, U64_MAX)
        THEN [ok |-> TRUE, v |-> [v EXCEPT !.total_deposit = sum]]
        ELSE [ok |-> FALSE, v |-> v]

\* The lending market: the collateral minted for a deposit of liquidity.
collateral_for(amount, reserve) ==
    IF reserve.collateral = Zero \/ reserve.liquidity = Zero THEN amount
    ELSE DivBig(MulBig(amount, reserve.collateral), reserve.liquidity)

\* The accounts as deserialized from the chain.
LoadAccounts(c) ==
    [shares_mint |-> [supply |-> c.shares_supply],
     collateral_vault |-> [amount |-> c.collateral_amount],
     reserve |-> c.reserve]

EmptyChain ==
    [shares_supply |-> Zero,
     collateral_amount |-> Zero,
     reserve |-> [liquidity |-> Zero, collateral |-> Zero],
     delegated_amount |-> Zero]

LimitSet == { ToBig(2000), U64_MAX }
InterestSet == { ToBig(500) }

\* The amounts a caller may pass: fixed ones, the headroom of the vault and
\* one more than it, and the largest amounts.
AmountSet ==
    LET h == SubBig(vault.deposit_limit, vault.total_deposit)
    IN  { a \in { One, ToBig(500), ToBig(1000), h, AddBig(h, One), U64_MAX } :
            LeqBig(a, U64_MAX) }

DepositInit ==
    /\ overflow_checks \in BOOLEAN
    /\ vault \in { [total_deposit |-> Zero, deposit_limit |-> l] : l \in LimitSet }
    /\ chain = EmptyChain
    /\ accts = LoadAccounts(EmptyChain)
    /\ entry = [vault |-> vault, chain |-> chain]
    /\ pc = "idle"
    /\ max_amount_in = Zero
    /\ shares = Zero
    /\ done = << >>
    /\ outcome = "None"
    /\ calls = 0
    /\ accruals = 0

\* A step returned Ok: go on to the next call, or return Ok(()).
Advance(step) ==
    /\ done' = Append(done, step)
    /\ IF StepIndex(step) = Len(deposit_steps)
       THEN pc' = "idle" /\ outcome' = "Ok"
       ELSE pc' = deposit_steps[StepIndex(step) + 1] /\ outcome' = outcome

\* The instruction fails: the transaction is rolled back.
Abort(code) ==
    /\ pc' = "idle"
    /\ outcome' = code
    /\ vault' = entry.vault
    /\ chain' = entry.chain
    /\ UNCHANGED << overflow_checks, accts, entry, max_amount_in, shares, done,
                    calls, accruals,
                    margin_vars >>

\* Entry of the instruction with argument amount.
Deposit ==
    /\ pc = "idle"
    /\ calls < MaxDeposits
    /\ \E amount \in AmountSet :
          /\ max_amount_in' = amount
          /\ accts' = LoadAccounts(chain)
          /\ entry' = [vault |-> vault, chain |-> chain]
          /\ pc' = "cap_check"
          /\ shares' = Zero
          /\ done' = << >>
          /\ outcome' = "Running"
          /\ calls' = calls + 1
          /\ UNCHANGED << overflow_checks, vault, chain, accruals,
                    margin_vars >>

\* deposit.rs:66-68
CapCheck ==
    /\ pc = "cap_check"
    /\ LET c == cap_check(vault.total_deposit, max_amount_in, vault.deposit_limit,
                          overflow_checks)
       IN  IF c = "Pass"
           THEN /\ pc' = deposit_steps[1]
                /\ UNCHANGED << overflow_checks, vault, chain, accts, entry,
                                max_amount_in, shares, done, outcome, calls, accruals,
                    margin_vars >>
           ELSE Abort(c)

\* deposit.rs:73, 81-91: the token program's approve.
Approve ==
    /\ pc = "approve"
    /\ \/ /\ chain' = [chain EXCEPT !.delegated_amount = max_amount_in]
          /\ Advance("approve")
          /\ UNCHANGED << overflow_checks, vault, accts, entry, max_amount_in,
                          shares, calls, accruals,
                    margin_vars >>
       \/ Abort("ProgramError")

\* deposit.rs:74, 121-141: the lending market takes the liquidity and mints
\* collateral to the vault's collateral account.
DepositLiquidity ==
    /\ pc = "deposit_liquidity"
    /\ \/ LET minted == collateral_for(max_amount_in, chain.reserve)
              liq == AddBig(chain.reserve.liquidity, max_amount_in)
              col == AddBig(chain.reserve.collateral, minted)
          IN  /\ LeqBig(liq, U64_MAX)
              /\ LeqBig(col, U64_MAX)
              /\ LeqBig(max_amount_in, chain.delegated_amount)
              /\ chain' = [chain EXCEPT
                              !.reserve = [liquidity |-> liq, collateral |-> col],
                              !.collateral_amount = AddBig(@, minted),
                              !.delegated_amount = SubBig(@, max_amount_in)]
              /\ Advance("deposit_liquidity")
              /\ UNCHANGED << overflow_checks, vault, accts, entry, max_amount_in,
                              shares, calls, accruals,
                    margin_vars >>
       \/ Abort("ProgramError")

\* deposit.rs:75
GetShares ==
    /\ pc = "get_shares"
    /\ LET s == get_shares(max_amount_in)
       IN  IF s.ok
           THEN /\ shares' = s.v
                /\ Advance("get_shares")
                /\ UNCHANGED << overflow_checks, vault, chain, accts, entry,
                                max_amount_in, calls, accruals,
                    margin_vars >>
           ELSE Abort("Panic")

\* deposit.rs:76, 93-104: the token program's mint_to.
Mint ==
    /\ pc = "mint"
    /\ \/ LET supply == AddBig(chain.shares_supply, shares)
          IN  /\ LeqBig(supply, U64_MAX)
              /\ chain' = [chain EXCEPT !.shares_supply = supply]
              /\ Advance("mint")
              /\ UNCHANGED << overflow_checks, vault, accts, entry, max_amount_in,
                              shares, calls, accruals,
                    margin_vars >>
       \/ Abort("ProgramError")

\* deposit.rs:77
AfterDeposit ==
    /\ pc = "after_deposit"
    /\ LET r == after_deposit(vault, max_amount_in)
       IN  IF r.ok
           THEN /\ vault' = r.v
                /\ Advance("after_deposit")
                /\ UNCHANGED << overflow_checks, chain, accts, entry, max_amount_in,
                                shares, calls, accruals,
                    margin_vars >>
           ELSE Abort("ArithmeticError")

\* Between instructions the reserve earns interest: its liquidity grows, its
\* collateral supply does not.
AccrueInterest ==
    /\ pc = "idle"
    /\ accruals < MaxAccruals
    /\ chain.reserve.collateral # Zero
    /\ \E i \in InterestSet :
          /\ LeqBig(AddBig(chain.reserve.liquidity, i), U64_MAX)
          /\ chain' = [chain EXCEPT !.reserve.liquidity = AddBig(@, i)]
    /\ accruals' = accruals + 1
    /\ UNCHANGED << overflow_checks, vault, accts, entry, pc, max_amount_in,
                    shares, done, outcome, calls,
                    margin_vars >>

Next ==
    \/ Deposit
    \/ CapCheck
    \/ Approve
    \/ DepositLiquidity
    \/ GetShares
    \/ Mint
    \/ AfterDeposit
    \/ AccrueInterest

\* No margin call is in progress under Spec, no deposit under MarginSpec.
MarginIdle ==
    /\ args = [spot |-> Zero, strike |-> Zero, mark |-> Zero,
               product |-> "Uninitialized", side |-> "Uninitialized",
               long |-> FALSE,
               margin_parameters |->
                   MarginParameters(Zero, Zero, Zero, Zero, Zero, Zero, Zero, Zero,
                                    Zero, Zero, Zero)]
    /\ otm = NotCalled
    /\ im = NotCalled
    /\ mm = NotCalled

DepositIdle ==
    /\ overflow_checks = TRUE
    /\ vault = [total_deposit |-> Zero, deposit_limit |-> Zero]
    /\ chain = EmptyChain
    /\ accts = LoadAccounts(EmptyChain)
    /\ entry = [vault |-> vault, chain |-> chain]
    /\ pc = "idle"
    /\ max_amount_in = Zero
    /\ shares = Zero
    /\ done = << >>
    /\ outcome = "None"
    /\ calls = 0
    /\ accruals = 0

Init == DepositInit /\ MarginIdle


Spec == Init /\ [][Next]_vars

MarginStart == MarginInit /\ DepositIdle

MarginSpec == MarginStart /\ [][MarginNext]_vars

\* ------------------------------------------------------------------------
\* Properties of the deposit instruction (under Spec)
\* ------------------------------------------------------------------------
Finished == pc = "idle" /\ outcome \notin {"None", "Running"}

Returned(step) == \E i \in DOMAIN done : done[i] = step

\* The headroom of the vault on entry of the call.
Headroom == SubBig(entry.vault.deposit_limit, entry.vault.total_deposit)

\* C1: total_deposit <= deposit_limit in every reachable state, whatever the
\* amounts of the deposits and however each of them ended.
C1_TotalDepositWithinLimit ==
    LeqBig(vault.total_deposit, vault.deposit_limit)

\* A deposit has succeeded and raised total_deposit.
C1_Witness ==
    /\ Finished
    /\ outcome = "Ok"
    /\ LtBig(entry.vault.total_deposit, vault.total_deposit)
    /\ calls >= 2

\* C2: a deposit of headroom + 1 ends with VaultIsFull; a deposit of exactly
\* the headroom, when no external call fails, ends Ok with total_deposit =
\* deposit_limit.
C2_HeadroomBoundary ==
    Finished =>
        /\ max_amount_in = AddBig(Headroom, One) => outcome = "VaultIsFull"
        /\ max_amount_in = Headroom =>
              /\ outcome \in {"Ok", "ProgramError", "Panic"}
              /\ outcome = "Ok" => vault.total_deposit = vault.deposit_limit

\* C3: when total_deposit + amount exceeds the u64 range the call is
\* rejected at the guard (VaultIsFull, or the abort of a checked addition)
\* and no later step of deposit() runs.
C3_OverflowFailsClosed ==
    ( /\ outcome # "None"
      /\ LtBig(U64_MAX, AddBig(entry.vault.total_deposit, max_amount_in)) ) =>
        /\ pc \in {"cap_check", "idle"}
        /\ done = << >>
        /\ pc = "idle" => outcome \in {"VaultIsFull", "Panic"}

\* C4: total_deposit changes only in a step taken after approve,
\* deposit_liquidity, get_shares and mint have returned Ok, in that order,
\* and then by exactly the amount; a call that fails leaves it as it was.
C4_TotalDepositUpdatedLast ==
    /\ [][ vault.total_deposit' # vault.total_deposit =>
             /\ done = << "approve", "deposit_liquidity", "get_shares", "mint" >>
             /\ vault.total_deposit' = AddBig(vault.total_deposit, max_amount_in)
             /\ vault.total_deposit = entry.vault.total_deposit ]_vars
    /\ [][ (outcome' \notin {"Ok", "Running", "None"}) =>
             vault.total_deposit' = entry.vault.total_deposit ]_vars

\* A deposit went through all its steps and raised total_deposit by the
\* amount.
C4_Witness ==
    /\ Finished
    /\ outcome = "Ok"
    /\ done = << "approve", "deposit_liquidity", "get_shares", "mint", "after_deposit" >>
    /\ max_amount_in # Zero
    /\ vault.total_deposit = AddBig(entry.vault.total_deposit, max_amount_in)

\* The shares the claim expects: the amount when no share exists, else
\* floor(amount * S / V) with S the share supply and V the underlying value
\* of the vault's collateral, both as they were on chain on entry.
SharesOnEntry ==
    LET S == entry.chain.shares_supply
        V == for_underlying(entry.chain.collateral_amount, entry.chain.reserve).v
    IN  IF S = Zero THEN max_amount_in ELSE DivBig(MulBig(max_amount_in, S), V)

\* C5: the shares computed by get_shares, and minted by a successful
\* deposit, are the amount when the supply on entry is 0 and otherwise
\* floor(amount * S / V) for the supply and underlying value on entry, not
\* those after the liquidity was deposited.
C5_SharesFromEntryTotals ==
    /\ Returned("get_shares") => shares = SharesOnEntry
    /\ (Finished /\ outcome = "Ok") =>
          chain.shares_supply = AddBig(entry.chain.shares_supply, SharesOnEntry)

\* 500 deposited with S = 1000 and V = 1500 on entry mints 333 (after 1000
\* deposited into the empty vault minted 1000).
C5_Witness ==
    /\ Finished
    /\ outcome = "Ok"
    /\ max_amount_in = ToBig(500)
    /\ entry.chain.shares_supply = ToBig(1000)
    /\ for_underlying(entry.chain.collateral_amount, entry.chain.reserve).v = ToBig(1500)
    /\ shares = ToBig(333)
    /\ chain.shares_supply = ToBig(1333)

\* ------------------------------------------------------------------------
\* Properties of the margin functions (under MarginSpec)
\* ------------------------------------------------------------------------
\* floor(strike * option_short_put_cap_percentage / DENOM)
PutCapOf(a) ==
    DivBig(MulBig(a.strike, a.margin_parameters.option_short_put_cap_percentage),
           NATIVE_PRECISION_DENOMINATOR)

\* C6: for spot > 0, the short Put initial margin (side Ask) and the short
\* Put maintenance margin (long = false), whenever returned, are at most
\* floor(strike * option_short_put_cap_percentage / DENOM).
C6_ShortPutCapped ==
    (args.product = "Put" /\ args.spot # Zero) =>
        /\ (args.side = "Ask" /\ im.tag = "Ok") => LeqBig(im.v, PutCapOf(args))
        /\ (~args.long /\ mm.tag = "Ok") => LeqBig(mm.v, PutCapOf(args))

\* A short Put whose uncapped margins exceed the cap: both results are the cap.
C6_Witness ==
    /\ args.product = "Put"
    /\ args.side = "Ask"
    /\ ~args.long
    /\ args.spot # Zero
    /\ im.tag = "Ok"
    /\ mm.tag = "Ok"
    /\ LtBig(PutCapOf(args), im.margin)
    /\ LtBig(PutCapOf(args), mm.margin)
    /\ im.v = PutCapOf(args)
    /\ mm.v = PutCapOf(args)

\* C7: get_otm_amount returns Ok(max(strike - spot, 0)) for Call and
\* Ok(max(spot - strike, 0)) for Put, for all u64 spot and strike, and
\* Err(UnsupportedKind) for every other kind.
C7_OtmAmount ==
    otm.tag # "NotCalled" =>
        CASE args.product = "Call" ->
                /\ otm.tag = "Ok"
                /\ otm.v = IF LtBig(args.spot, args.strike)
                           THEN SubBig(args.strike, args.spot) ELSE Zero
          [] args.product = "Put" ->
                /\ otm.tag = "Ok"
                /\ otm.v = IF LtBig(args.strike, args.spot)
                           THEN SubBig(args.spot, args.strike) ELSE Zero
          [] OTHER -> otm.tag = "UnsupportedKind"

\* A Put with spot above strike: the OTM amount is the difference.
C7_Witness ==
    /\ args.product = "Put"
    /\ args.spot = ToBig(100000000)
    /\ args.strike = ToBig(90000000)
    /\ otm.tag = "Ok"
    /\ otm.v = ToBig(10000000)

\* Every maintenance percentage is at most the corresponding initial one.
MaintenanceLeqInitial(p) ==
    /\ LeqBig(p.future_margin_maintenance, p.future_margin_initial)
    /\ LeqBig(p.option_spot_percentage_long_maintenance,
              p.option_spot_percentage_long_initial)
    /\ LeqBig(p.option_mark_percentage_long_maintenance,
              p.option_mark_percentage_long_initial)
    /\ LeqBig(p.option_spot_percentage_short_maintenance,
              p.option_spot_percentage_short_initial)
    /\ LeqBig(p.option_dynamic_percentage_short_maintenance,
              p.option_dynamic_percentage_short_initial)

\* C8: for Future, Call and Put, with every maintenance percentage at most
\* the initial one, the maintenance margin for long = b is at most the
\* initial margin for side = Bid if b else Ask, whenever both are returned.
C8_MaintenanceLeqInitial ==
    ( /\ args.product \in {"Future", "Call", "Put"}
      /\ MaintenanceLeqInitial(args.margin_parameters)
      /\ args.side = (IF args.long THEN "Bid" ELSE "Ask")
      /\ im.tag = "Ok"
      /\ mm.tag = "Ok" ) => LeqBig(mm.v, im.v)

\* A short Call with lower maintenance percentages: the maintenance margin
\* is strictly below the initial margin.
C8_Witness ==
    /\ args.product = "Call"
    /\ args.side = "Ask"
    /\ ~args.long
    /\ MaintenanceLeqInitial(args.margin_parameters)
    /\ im.tag = "Ok"
    /\ mm.tag = "Ok"
    /\ LtBig(mm.v, im.v)

\* The inputs of the scenario of C9.
C9_Scenario ==
    /\ args.spot = ToBig(100000000)
    /\ args.strike = ToBig(90000000)
    /\ args.mark = ToBig(12000000)
    /\ args.product = "Put"
    /\ args.side = "Ask"
    /\ args.margin_parameters.option_dynamic_percentage_short_initial = ToBig(500000)
    /\ args.margin_parameters.option_spot_percentage_short_initial = ToBig(100000)
    /\ args.margin_parameters.option_short_put_cap_percentage = ToBig(200000)

\* C9 as stated: in the scenario get_initial_margin_per_lot goes through
\* otm_amount = 0, otm_pct = 0, dynamic_margin_pct = 500000, margin_pct =
\* 500000, margin = 50_000000, cap = 18_000000, and returns 18_000000.
C9_AsStated ==
    (C9_Scenario /\ im.tag # "NotCalled") =>
        /\ im.tag = "Ok"
        /\ im.otm_amount = Zero
        /\ im.otm_pct = Zero
        /\ im.dynamic_margin_pct = ToBig(500000)
        /\ im.margin_pct = ToBig(500000)
        /\ im.margin = ToBig(50000000)
        /\ im.sell_put_cap_margin = ToBig(18000000)
        /\ im.v = ToBig(18000000)

\* C9, amended: in the scenario get_initial_margin_per_lot goes through
\* otm_amount = 10_000000 (spot - strike, for a Put), otm_pct = 100000,
\* dynamic_margin_pct = 400000, margin_pct = 400000, margin = 40_000000,
\* cap = 18_000000, and returns 18_000000.
C9_Amended ==
    (C9_Scenario /\ im.tag # "NotCalled") =>
        /\ im.tag = "Ok"
        /\ im.otm_amount = ToBig(10000000)
        /\ im.otm_pct = ToBig(100000)
        /\ im.dynamic_margin_pct = ToBig(400000)
        /\ im.margin_pct = ToBig(400000)
        /\ im.margin = ToBig(40000000)
        /\ im.sell_put_cap_margin = ToBig(18000000)
        /\ im.v = ToBig(18000000)

\* The scenario has been computed.
C9_Witness == C9_Scenario /\ im.tag = "Ok" /\ im.v = ToBig(18000000)

====
